---- MODULE Spec2Model ----
(***************************************************************************)
(* The chapter-ingestion watcher of nakama-dl (src/main.py): the feed      *)
(* watcher loop, the per-announcement pipeline process_new_chapter, the    *)
(* processed-chapters ledger file and the scratch area on disk.            *)
(*                                                                         *)
(* One process runs at a time.  The disk (ledger file, scratch archives,   *)
(* extraction directories, output documents) survives a restart, the      *)
(* in-memory set processed_urls and the locals of a run do not.            *)
(***************************************************************************)
EXTENDS Integers, Sequences, FiniteSets, TLC

\* ------------------------------------------------------------------ bounds

\* Most entries a feed holds.
MaxEntries == 2
\* Number of times the process is killed and started again.
MaxRestarts == 1
\* Most files a listing of an extraction directory holds.
MaxImages == 3

\* ------------------------------------------------------- program constants

\* config.get('max_age_hours', 24)
MAX_AGE_HOURS == 24
\* config.get('chapter_keyword', ...), here the configured keyword "Ch".
CHAPTER_KEYWORD == <<"C", "h">>

\* ------------------------------------------------------------- the inputs

\* Text is a sequence of one-character strings.
NL == "\n"
Whitespace == {" ", NL, "\t"}
Digits == {"0", "1", "2", "3", "4", "5", "6", "7", "8", "9"}

\* Announcement links as feedparser delivers them (stripped, non-empty).
LinkA == <<"a">>
LinkB == <<"b">>
Links == {LinkA, LinkB}

\* An optional value: None or Some(x).
None == <<>>
Some(x) == <<x>>
The(opt) == opt[1]

\* Hours since publication of an entry (datetime.now() - published_time);
\* None is an entry whose published_parsed is missing.
Ages == {Some(1), Some(48), None}

\* Titles of entries: one with the keyword in another case and a number,
\* one without the keyword.
TitleChapter == <<"c", "H", " ", "7">>
TitleOther == <<"o", "p">>
Titles == {TitleChapter, TitleOther}

\* Feed entries: link, age of the publish time, and title.
Entries == [link : Links, age : Ages, title : Titles]

\* File names the storage provider gives the archive of an announcement.
RarC12 == <<"c", "1", "2", ".", "r", "a", "r">>
RarBad == <<"o", "p", ".", "r", "a", "r">>
ArchiveNames == {RarC12, RarBad}

\* ------------------------------------------------------------ text helpers

Range(s) == {s[i] : i \in 1..Len(s)}

\* The elements of s other than x, in order.
RECURSIVE Without(_, _)
Without(s, x) ==
    IF s = <<>> THEN <<>>
    ELSE IF Head(s) = x THEN Without(Tail(s), x)
         ELSE <<Head(s)>> \o Without(Tail(s), x)

\* str.strip(): leading and trailing whitespace removed.
RECURSIVE LStrip(_)
LStrip(s) ==
    IF s # <<>> /\ Head(s) \in Whitespace THEN LStrip(Tail(s)) ELSE s

RECURSIVE RStrip(_)
RStrip(s) ==
    IF s # <<>> /\ s[Len(s)] \in Whitespace THEN RStrip(SubSeq(s, 1, Len(s) - 1)) ELSE s

Strip(s) == RStrip(LStrip(s))

\* Iterating a text file: the lines of the text, each up to and including
\* its newline.
RECURSIVE FileLines(_, _)
FileLines(text, line) ==
    IF text = <<>> THEN (IF line = <<>> THEN <<>> ELSE <<line>>)
    ELSE IF Head(text) = NL THEN <<Append(line, NL)>> \o FileLines(Tail(text), <<>>)
         ELSE FileLines(Tail(text), Append(line, Head(text)))

Max(S) == CHOOSE x \in S : \A y \in S : y <= x

\* os.path.splitext(p)[0]: p up to the last dot of its last component (the
\* dots a component starts with do not start an extension).
LastSep(s) == Max({0} \cup {i \in 1..Len(s) : s[i] = "/"})
LastDot(s) == Max({0} \cup {i \in (LastSep(s) + 1)..Len(s) : s[i] = "."})

SplitextRoot(s) ==
    LET d == LastDot(s)
    IN IF \E i \in (LastSep(s) + 1)..(d - 1) : s[i] # "."
       THEN SubSeq(s, 1, d - 1)
       ELSE s

EndsWith(s, suffix) ==
    /\ Len(s) >= Len(suffix)
    /\ SubSeq(s, Len(s) - Len(suffix) + 1, Len(s)) = suffix

DigitValue(c) ==
    CASE c = "0" -> 0 [] c = "1" -> 1 [] c = "2" -> 2 [] c = "3" -> 3
      [] c = "4" -> 4 [] c = "5" -> 5 [] c = "6" -> 6 [] c = "7" -> 7
      [] c = "8" -> 8 [] c = "9" -> 9

\* int() of a string of digits.
RECURSIVE ToInt(_)
ToInt(s) ==
    IF s = <<>> THEN 0 ELSE 10 * ToInt(SubSeq(s, 1, Len(s) - 1)) + DigitValue(s[Len(s)])

\* str.isdigit(): non-empty and all digits.
IsDigit(s) == s # <<>> /\ Range(s) \subseteq Digits

\* "".join / f-string concatenation of texts.
Join(a, b) == a \o b

StartsWith(s, prefix) ==
    /\ Len(s) >= Len(prefix)
    /\ SubSeq(s, 1, Len(prefix)) = prefix

\* The characters of the model's texts in code point order.
CodePoints ==
    <<" ", ".", "/", "0", "1", "2", "3", "4", "5", "6", "7", "8", "9",
      "C", "G", "H", "J", "N", "P", "_",
      "a", "b", "c", "d", "e", "f", "g", "h", "i", "j", "k", "l", "m",
      "n", "o", "p", "q", "r", "s", "t", "u", "v", "w", "x", "y", "z">>
Ord(c) == CHOOSE i \in 1..Len(CodePoints) : CodePoints[i] = c

\* a < b on str: by the first character that differs, a proper prefix first.
RECURSIVE StrLess(_, _)
StrLess(a, b) ==
    IF b = <<>> THEN FALSE
    ELSE IF a = <<>> THEN TRUE
    ELSE IF Head(a) = Head(b) THEN StrLess(Tail(a), Tail(b))
    ELSE Ord(Head(a)) < Ord(Head(b))

\* str.lower()
UpperCase == <<"C", "G", "H", "J", "N", "P">>
LowerCase == <<"c", "g", "h", "j", "n", "p">>
LowerChar(c) ==
    IF \E i \in 1..Len(UpperCase) : UpperCase[i] = c
    THEN LowerCase[CHOOSE i \in 1..Len(UpperCase) : UpperCase[i] = c]
    ELSE c

RECURSIVE Lower(_)
Lower(s) ==
    IF s = <<>> THEN <<>> ELSE <<LowerChar(Head(s))>> \o Lower(Tail(s))

\* sub in s
Contains(s, sub) ==
    \E i \in 1..(Len(s) + 1) :
        /\ i + Len(sub) - 1 <= Len(s)
        /\ SubSeq(s, i, i + Len(sub) - 1) = sub

\* str.split(sep): the parts between the occurrences of sep, left to right.
RECURSIVE Split(_, _, _)
Split(s, sep, part) ==
    IF s = <<>> THEN <<part>>
    ELSE IF StartsWith(s, sep)
         THEN <<part>> \o Split(SubSeq(s, Len(sep) + 1, Len(s)), sep, <<>>)
         ELSE Split(Tail(s), sep, Append(part, Head(s)))

\* int(s) does not raise ValueError: digits, single underscores between
\* them, a sign before and whitespace around them.
Unsigned(s) ==
    LET t == Strip(s)
    IN IF t # <<>> /\ Head(t) \in {"+", "-"} THEN Tail(t) ELSE t

IsInt(s) ==
    LET u == Unsigned(s)
    IN /\ u # <<>>
       /\ Range(u) \subseteq Digits \cup {"_"}
       /\ u[1] # "_"
       /\ u[Len(u)] # "_"
       /\ \A i \in 1..(Len(u) - 1) : ~(u[i] = "_" /\ u[i + 1] = "_")

\* int(s)
IntOf(s) ==
    LET t == Strip(s)
        n == ToInt(Without(Unsigned(s), "_"))
    IN IF Head(t) = "-" THEN 0 - n ELSE n

\* get_chapter_number_from_filename: cXXXX.rar -> XXXX, anything else None.
get_chapter_number_from_filename(filename) ==
    LET name_parts == SplitextRoot(filename)
    IN IF name_parts # <<>> /\ Head(name_parts) = "c" /\ IsDigit(Tail(name_parts))
       THEN Some(ToInt(Tail(name_parts)))
       ELSE None

\* re.search(r'\d+', title): the first run of digits of the title, if any.
FirstDigit(title) ==
    CHOOSE i \in 1..Len(title) :
        /\ title[i] \in Digits
        /\ \A j \in 1..(i - 1) : title[j] \notin Digits

RECURSIVE DigitRun(_, _)
DigitRun(title, i) ==
    IF i <= Len(title) /\ title[i] \in Digits
    THEN <<title[i]>> \o DigitRun(title, i + 1)
    ELSE <<>>

\* get_chapter_number_from_title: the first number of the title, or None.
\* (No statement of the program calls it.)
get_chapter_number_from_title(title) ==
    IF Range(title) \cap Digits # {}
    THEN Some(ToInt(DigitRun(title, FirstDigit(title))))
    ELSE None

Chapters == {The(get_chapter_number_from_filename(f)) :
                f \in {g \in ArchiveNames : get_chapter_number_from_filename(g) # None}}

\* ---------------------------------------------------------------- state

VARIABLES
    pc,              \* where the process stands (see the actions)
    restarts,        \* times the process was started again
    processed_urls,  \* watch_rss_feed's in-memory set
    ledger_exists,   \* os.path.exists(PROCESSED_CHAPTERS_FILE)
    ledger_file,     \* the text of PROCESSED_CHAPTERS_FILE
    idx,             \* entries of feed.entries the for loop has taken in this cycle
    entry,           \* the entry the for loop holds
    post_link,       \* process_new_chapter's argument
    rar_filename,    \* the archive the fetcher returned (temp_rar_path is TEMP_DIR/rar_filename)
    chapter_number,  \* process_new_chapter's chapter_number
    mega_link,       \* process_new_chapter's mega_link
    fetch_error,     \* download_from_mega's exception, until its caller has gone on
    downloaded,      \* the file its m.download_url wrote, until its caller has gone on
    images,          \* images_to_pdf's images, by origin, once it has opened them
    pdf_pages,       \* origins of the images this run's images_to_pdf saved
    result,          \* how the last run of process_new_chapter ended
    exit_stage,      \* the stage at which it returned or raised
    temp_files,      \* the archive files in TEMP_DIR, oldest modification first
    extract_dirs,    \* TEMP_DIR/chapter_<n>: NoDir or the origins of its image files
    output_docs,     \* whether OUTPUT_PDF_DIR/One Piece - <n>.pdf exists
    unexamined,      \* links of eligible entries the for loop had not reached when an exception ended it
    load_failed,     \* this process's load_processed_chapters hit the except branch
    succeeded,       \* links process_new_chapter returned True for, in this process
    ever_succeeded,  \* the same, over all processes
    record_failed,   \* links whose ledger append failed, in this process
    recorded,        \* links whose ledger append succeeded, over all processes
    failed,          \* links whose last run failed, in an earlier cycle of this process
    failed_now,      \* links whose last run failed, in this cycle
    listing,         \* images_to_pdf: what os.listdir(image_folder) returned
    image_paths,     \* images_to_pdf: the sorted image_paths
    sort_state       \* images_to_pdf: whether sorted(...) is done, or raised

vars == <<pc, restarts, processed_urls, ledger_exists, ledger_file, idx, entry,
          post_link, mega_link, fetch_error, downloaded, rar_filename,
          chapter_number, images, pdf_pages, result, exit_stage,
          temp_files, extract_dirs, output_docs, unexamined, load_failed,
          succeeded, ever_succeeded, record_failed, recorded, failed, failed_now,
          listing, image_paths, sort_state>>

disk == <<ledger_exists, ledger_file, temp_files, extract_dirs, output_docs>>
fetcher == <<fetch_error, downloaded>>
run_locals == <<post_link, mega_link, fetcher, rar_filename, chapter_number, images,
                pdf_pages, exit_stage>>
history == <<succeeded, ever_succeeded, record_failed, recorded, failed, failed_now>>
watcher == <<restarts, processed_urls, idx, entry, unexamined, load_failed>>
assembler == <<listing, image_paths, sort_state>>
pipeline == <<pc, result, watcher, disk, run_locals, history>>

\* A directory that does not exist.
NoDir == None
\* Image files of a directory by origin: extracted by the run in progress
\* ("cur") or left by an earlier run ("old").
Origins == {"cur", "old"}

PipelinePcs == {"resolve", "download", "derive", "mkdir", "extract", "rmrar",
                "pdf", "rmtree", "record"}

\* load_processed_chapters' reading of the file: the stripped non-empty lines.
ParseLedger(text) ==
    LET lines == FileLines(text, <<>>)
    IN {Strip(lines[i]) : i \in {j \in 1..Len(lines) : Strip(lines[j]) # <<>>}}

\* Mutant: the link is written without the newline.
AppendLedger_no_newline(text, post_url) == Join(text, post_url)

\* f.write(f"{post_url}\n") on the file opened for appending.
AppendLedger(text, post_url) == Join(text, Join(post_url, <<NL>>))

\* datetime.now() - published_time > timedelta(hours=MAX_AGE_HOURS)
TooOld(e) == The(e.age) > MAX_AGE_HOURS

\* CHAPTER_KEYWORD.lower() in entry.title.lower()
HasKeyword(e) == Contains(Lower(e.title), Lower(CHAPTER_KEYWORD))

\* An entry the watcher hands to the pipeline unless it is already processed.
Eligible(e) ==
    /\ e.age # None
    /\ ~TooOld(e)
    /\ HasKeyword(e)

\* What a run leaves in the scratch directories is old for the next run.
Aged(dir) == IF dir = NoDir \/ dir = Some({}) THEN dir ELSE Some({"old"})
AgedDirs == [n \in Chapters |-> Aged(extract_dirs[n])]

\* No image folder is being assembled.
NoAssembly ==
    /\ listing = <<>>
    /\ image_paths = <<>>
    /\ sort_state = "idle"

\* The process starts: nothing on disk yet, nothing in memory.
Started ==
    /\ pc = "start"
    /\ restarts = 0
    /\ processed_urls = {}
    /\ ledger_exists = FALSE
    /\ ledger_file = <<>>
    /\ idx = 0
    /\ entry = None
    /\ post_link = None
    /\ mega_link = None
    /\ fetch_error = "none"
    /\ downloaded = None
    /\ rar_filename = None
    /\ chapter_number = None
    /\ images = None
    /\ pdf_pages = {}
    /\ result = "none"
    /\ exit_stage = "none"
    /\ temp_files = <<>>
    /\ extract_dirs = [n \in Chapters |-> NoDir]
    /\ output_docs = [n \in Chapters |-> FALSE]
    /\ unexamined = {}
    /\ load_failed = FALSE
    /\ succeeded = {}
    /\ ever_succeeded = {}
    /\ record_failed = {}
    /\ recorded = {}
    /\ failed = {}
    /\ failed_now = {}

Init ==
    /\ Started
    /\ NoAssembly

\* ------------------------------------------------------------ the ledger

\* Mutant: the ledger is never read back (the set always starts empty).
load_processed_chapters_empty ==
    /\ pc = "start"
    /\ processed_urls' = {}
    /\ load_failed' = FALSE
    /\ pc' = "parse"
    /\ UNCHANGED <<restarts, idx, entry, unexamined, result>>
    /\ UNCHANGED <<disk, run_locals, history>>
    /\ UNCHANGED assembler

\* load_processed_chapters, called once when watch_rss_feed starts.
load_processed_chapters ==
    /\ pc = "start"
    /\ \/ /\ ~ledger_exists
          /\ processed_urls' = {}
          /\ load_failed' = FALSE
       \/ /\ ledger_exists
          /\ processed_urls' = ParseLedger(ledger_file)
          /\ load_failed' = FALSE
       \/ /\ ledger_exists          \* open or read raises: logged, empty set
          /\ processed_urls' = {}
          /\ load_failed' = TRUE
    /\ pc' = "parse"
    /\ UNCHANGED <<restarts, idx, entry, unexamined, result>>
    /\ UNCHANGED <<disk, run_locals, history>>
    /\ UNCHANGED assembler

\* ------------------------------------------------------- the feed watcher

\* No run of process_new_chapter is in progress or just over.
NoRun ==
    /\ post_link' = None
    /\ mega_link' = None
    /\ fetch_error' = "none"
    /\ downloaded' = None
    /\ rar_filename' = None
    /\ chapter_number' = None
    /\ images' = None
    /\ pdf_pages' = {}
    /\ exit_stage' = "none"
    /\ extract_dirs' = AgedDirs

\* The eligible entries the for loop has not reached after it took `taken`
\* entries, by link: none when the feed cannot hold another entry.
Unreached(taken, links) == taken >= MaxEntries => links = {}

\* feedparser.parse(RSS_FEED_URL) returns the feed of this cycle; the for
\* loop takes its entries one by one.
FeedParse ==
    /\ pc = "parse"
    /\ idx' = 0
    /\ pc' = "entry"
    /\ UNCHANGED <<restarts, processed_urls, entry, unexamined, load_failed, result>>
    /\ UNCHANGED <<disk, run_locals, history>>
    /\ UNCHANGED assembler

\* Fetching or parsing the feed raises: caught by the except of the cycle.
FeedError ==
    /\ pc = "parse"
    /\ pc' = "sleep"
    /\ UNCHANGED <<restarts, processed_urls, idx, entry, unexamined, load_failed, result>>
    /\ UNCHANGED <<disk, run_locals, history>>
    /\ UNCHANGED assembler

\* The for loop takes the next entry of the feed.
AtEntry == pc = "entry" /\ idx < MaxEntries

\* continue, or the end of the loop body
NextEntry(e) ==
    /\ entry' = Some(e)
    /\ idx' = idx + 1
    /\ pc' = "entry"
    /\ result' = "none"
    /\ UNCHANGED <<restarts, processed_urls, unexamined, load_failed>>
    /\ UNCHANGED <<disk, run_locals, history>>

\* The for loop is through: leave the try block.
EndOfFeed ==
    /\ pc = "entry"
    /\ pc' = "sleep"
    /\ UNCHANGED <<restarts, processed_urls, idx, entry, unexamined, load_failed, result>>
    /\ UNCHANGED <<disk, run_locals, history>>
    /\ UNCHANGED assembler

\* time.mktime(entry.published_parsed) raises for an entry without a publish
\* time: the except of the cycle ends the for loop.
EntryNoDate ==
    /\ AtEntry
    /\ \E e \in Entries : e.age = None /\ entry' = Some(e)
    /\ \E rest \in SUBSET Links : Unreached(idx + 1, rest) /\ unexamined' = rest
    /\ idx' = idx + 1
    /\ pc' = "sleep"
    /\ result' = "none"
    /\ UNCHANGED <<restarts, processed_urls, load_failed>>
    /\ UNCHANGED <<disk, run_locals, history>>
    /\ UNCHANGED assembler

\* The entry is older than MAX_AGE_HOURS: continue
SkipOld ==
    /\ AtEntry
    /\ \E e \in Entries : e.age # None /\ TooOld(e) /\ NextEntry(e)
    /\ UNCHANGED assembler

\* CHAPTER_KEYWORD.lower() is not in entry.title.lower()
SkipNoKeyword ==
    /\ AtEntry
    /\ \E e \in Entries : e.age # None /\ ~TooOld(e) /\ ~HasKeyword(e) /\ NextEntry(e)
    /\ UNCHANGED assembler

\* entry.link in processed_urls: "Chapter already processed"
SkipProcessed ==
    /\ AtEntry
    /\ \E e \in Entries : Eligible(e) /\ e.link \in processed_urls /\ NextEntry(e)
    /\ UNCHANGED assembler

\* Mutant: the age of the entry is not looked at.
InvokePipeline_any_age ==
    /\ AtEntry
    /\ \E e \in Entries :
          /\ e.age # None
          /\ HasKeyword(e)
          /\ e.link \notin processed_urls
          /\ entry' = Some(e)
          /\ post_link' = e.link
          /\ failed' = failed \ {e.link}
          /\ failed_now' = failed_now \ {e.link}
    /\ idx' = idx + 1
    /\ pc' = "resolve"
    /\ result' = "none"
    /\ UNCHANGED <<restarts, processed_urls, unexamined, load_failed>>
    /\ UNCHANGED <<disk, mega_link, fetcher, rar_filename, chapter_number>>
    /\ UNCHANGED <<images, pdf_pages, exit_stage>>
    /\ UNCHANGED <<succeeded, ever_succeeded, record_failed, recorded>>
    /\ UNCHANGED assembler

\* entry.link not in processed_urls: the call process_new_chapter(entry.link).
InvokePipeline ==
    /\ AtEntry
    /\ \E e \in Entries :
          /\ Eligible(e)
          /\ e.link \notin processed_urls
          /\ entry' = Some(e)
          /\ post_link' = e.link
          /\ failed' = failed \ {e.link}
          /\ failed_now' = failed_now \ {e.link}
    /\ idx' = idx + 1
    /\ pc' = "resolve"
    /\ result' = "none"
    /\ UNCHANGED <<restarts, processed_urls, unexamined, load_failed>>
    /\ UNCHANGED <<disk, mega_link, fetcher, rar_filename, chapter_number>>
    /\ UNCHANGED <<images, pdf_pages, exit_stage>>
    /\ UNCHANGED <<succeeded, ever_succeeded, record_failed, recorded>>
    /\ UNCHANGED assembler

\* Mutant: the watcher does not add the link of a successful run.
HandleResult_forgets ==
    /\ pc = "return"
    /\ pc' = "entry"
    /\ NoRun
    /\ UNCHANGED <<restarts, processed_urls, idx, entry, unexamined, load_failed, result>>
    /\ UNCHANGED <<ledger_exists, ledger_file, temp_files, output_docs, history>>
    /\ UNCHANGED assembler

\* Mutant: the watcher adds the link only if the ledger holds it.
HandleResult_recorded_only ==
    /\ pc = "return"
    /\ processed_urls' = IF result = "True" /\ The(entry).link \in ParseLedger(ledger_file)
                         THEN processed_urls \cup {The(entry).link}
                         ELSE processed_urls
    /\ pc' = "entry"
    /\ NoRun
    /\ UNCHANGED <<restarts, idx, entry, unexamined, load_failed, result>>
    /\ UNCHANGED <<ledger_exists, ledger_file, temp_files, output_docs, history>>
    /\ UNCHANGED assembler

\* if process_new_chapter(entry.link): processed_urls.add(entry.link)
\* else: "Will retry on next loop."
HandleResult ==
    /\ pc = "return"
    /\ processed_urls' = IF result = "True" THEN processed_urls \cup {The(entry).link}
                         ELSE processed_urls
    /\ pc' = "entry"
    /\ NoRun
    /\ UNCHANGED <<restarts, idx, entry, unexamined, load_failed, result>>
    /\ UNCHANGED <<ledger_exists, ledger_file, temp_files, output_docs, history>>
    /\ UNCHANGED assembler

\* time.sleep(CHECK_INTERVAL_MINUTES * 60), then the next cycle.
Sleep ==
    /\ pc = "sleep"
    /\ pc' = "parse"
    /\ idx' = 0
    /\ entry' = None
    /\ unexamined' = {}
    /\ failed' = failed \cup failed_now
    /\ failed_now' = {}
    /\ result' = "none"
    /\ NoRun
    /\ UNCHANGED <<restarts, processed_urls, load_failed>>
    /\ UNCHANGED <<ledger_exists, ledger_file, temp_files, output_docs>>
    /\ UNCHANGED <<succeeded, ever_succeeded, record_failed, recorded>>
    /\ UNCHANGED assembler

\* The process is killed and started again: the disk stays, memory is lost.
Restart ==
    /\ pc # "start"
    /\ restarts < MaxRestarts
    /\ restarts' = restarts + 1
    /\ pc' = "start"
    /\ processed_urls' = {}
    /\ idx' = 0
    /\ entry' = None
    /\ unexamined' = {}
    /\ load_failed' = FALSE
    /\ result' = "none"
    /\ NoRun
    /\ succeeded' = {}
    /\ record_failed' = {}
    /\ failed' = {}
    /\ failed_now' = {}
    /\ UNCHANGED <<ledger_exists, ledger_file, temp_files, output_docs>>
    /\ UNCHANGED <<ever_succeeded, recorded>>
    /\ UNCHANGED assembler

\* ----------------------------------------------------------- the pipeline

Dir(n) == extract_dirs[n]

\* How a run of process_new_chapter ends.
ReturnFalse(stage) ==
    /\ pc' = "return"
    /\ result' = "False"
    /\ exit_stage' = stage
    /\ failed_now' = failed_now \cup {post_link}
    /\ UNCHANGED <<succeeded, ever_succeeded, failed, unexamined>>

\* Mutant: no except around the feed cycle, the exception ends the process.
Raise_uncaught(stage) ==
    /\ pc' = "dead"
    /\ result' = "raised"
    /\ exit_stage' = stage
    /\ failed_now' = failed_now \cup {post_link}
    /\ UNCHANGED <<succeeded, ever_succeeded, failed, unexamined>>

\* An exception leaves process_new_chapter and is caught by the except of
\* the feed cycle, which ends the for loop.
Raise(stage) ==
    /\ pc' = "sleep"
    /\ result' = "raised"
    /\ exit_stage' = stage
    /\ failed_now' = failed_now \cup {post_link}
    /\ \E rest \in SUBSET Links : Unreached(idx, rest) /\ unexamined' = rest
    /\ UNCHANGED <<succeeded, ever_succeeded, failed>>

ReturnTrue ==
    /\ pc' = "return"
    /\ result' = "True"
    /\ exit_stage' = "record"
    /\ succeeded' = succeeded \cup {post_link}
    /\ ever_succeeded' = ever_succeeded \cup {post_link}
    /\ UNCHANGED <<failed, failed_now, unexamined>>

\* The run goes on to the next stage.
Goto(stage) ==
    /\ pc' = stage
    /\ UNCHANGED <<result, exit_stage, unexamined, history>>

\* os.remove(temp_rar_path) succeeds.
Removed == temp_files' = Without(temp_files, rar_filename)

\* The hrefs of the <a> tags of a landing page, in document order: a page
\* without tags, one without a mega.nz link, and one with two of them.
HrefOther == <<"x", ".", "i", "o">>
HrefMega == <<"m", "e", "g", "a", ".", "n", "z", "/", "1">>
HrefMegaLater == <<"m", "e", "g", "a", ".", "n", "z", "/", "2">>
LandingPages == {<<>>, <<HrefOther>>, <<HrefOther, HrefMega, HrefMegaLater>>}

\* [a['href'] for a in soup.find_all('a', href=True) if 'mega.nz' in a['href']]
IsMegaHref(href) == Contains(href, <<"m", "e", "g", "a", ".", "n", "z">>)
MegaLinks(hrefs) == SelectSeq(hrefs, IsMegaHref)

\* get_mega_file_url's return value for a fetched page: mega_links[0], or
\* None when the page has no mega.nz link.
FirstMegaLink(hrefs) ==
    IF MegaLinks(hrefs) # <<>> THEN Some(MegaLinks(hrefs)[1]) ELSE None

\* Mutant: process_new_chapter goes on to the download without a link.
get_mega_file_url_unchecked ==
    /\ pc = "resolve"
    /\ \/ \E hrefs \in LandingPages : mega_link' = FirstMegaLink(hrefs)
       \/ mega_link' = None
    /\ Goto("download")
    /\ UNCHANGED <<restarts, processed_urls, idx, entry, load_failed, disk>>
    /\ UNCHANGED <<post_link, fetcher, rar_filename, chapter_number, images, pdf_pages>>
    /\ UNCHANGED assembler

\* 1. mega_link = get_mega_file_url(post_link); if not mega_link: return False
get_mega_file_url ==
    /\ pc = "resolve"
    /\ \/ \E hrefs \in LandingPages :       \* the page was fetched
             /\ mega_link' = FirstMegaLink(hrefs)
             /\ IF mega_link' # None
                THEN Goto("download")
                ELSE ReturnFalse("resolve") /\ UNCHANGED <<record_failed, recorded>>
       \/ /\ mega_link' = None              \* RequestException: logged, None
          /\ ReturnFalse("resolve")
          /\ UNCHANGED <<record_failed, recorded>>
    /\ UNCHANGED <<restarts, processed_urls, idx, entry, load_failed, disk>>
    /\ UNCHANGED <<post_link, fetcher, rar_filename, chapter_number, images, pdf_pages>>
    /\ UNCHANGED assembler

\* The files a directory listing of TEMP_DIR shows that end in .rar, and the
\* most recently modified of them.
RarFiles(files) == {f \in Range(files) : EndsWith(f, <<".", "r", "a", "r">>)}
LatestRar(files) ==
    LET at == CHOOSE i \in 1..Len(files) :
                 /\ files[i] \in RarFiles(files)
                 /\ \A j \in (i + 1)..Len(files) : files[j] \notin RarFiles(files)
    IN files[at]

\* m.download_url wrote file f into TEMP_DIR.
Written(files, f) == Append(Without(files, f), f)

\* What the retrieval leaves in TEMP_DIR when it raises: file f written, or
\* nothing written.
Retrieved(written, f) ==
    /\ temp_files' = IF written THEN Written(temp_files, f) ELSE temp_files
    /\ downloaded' = IF written THEN Some(f) ELSE None

\* Mutant: no re-scan of TEMP_DIR, every exception is a failure.
download_from_mega_no_rescan ==
    /\ pc = "download"
    /\ \/ \E f \in ArchiveNames :
             /\ temp_files' = Written(temp_files, f)
             /\ downloaded' = Some(f)
             /\ fetch_error' = "none"
             /\ rar_filename' = f
             /\ Goto("derive")
       \/ /\ UNCHANGED <<temp_files, rar_filename, record_failed, recorded>>
          /\ downloaded' = None
          /\ fetch_error' = "none"
          /\ ReturnFalse("download")
       \/ \E f \in ArchiveNames, written \in BOOLEAN, e \in {"WinError 32", "other"} :
             /\ Retrieved(written, f)
             /\ fetch_error' = e
             /\ ReturnFalse("download")
             /\ UNCHANGED <<rar_filename, record_failed, recorded>>
    /\ UNCHANGED <<restarts, processed_urls, idx, entry, load_failed>>
    /\ UNCHANGED <<ledger_exists, ledger_file, extract_dirs, output_docs>>
    /\ UNCHANGED <<post_link, mega_link, chapter_number, images, pdf_pages>>
    /\ UNCHANGED assembler

\* 2. temp_rar_path, rar_filename = download_from_mega(mega_link, TEMP_DIR);
\* if not temp_rar_path: return False
download_from_mega ==
    /\ pc = "download"
    /\ \/ \E f \in ArchiveNames :            \* downloaded, the file exists
             /\ temp_files' = Written(temp_files, f)
             /\ downloaded' = Some(f)
             /\ fetch_error' = "none"
             /\ rar_filename' = f
             /\ Goto("derive")
       \/ /\ UNCHANGED <<temp_files, rar_filename, record_failed, recorded>>   \* no file name, or no file at the path
          /\ downloaded' = None
          /\ fetch_error' = "none"
          /\ ReturnFalse("download")
       \/ \E f \in ArchiveNames, written \in BOOLEAN :     \* an exception without 'WinError 32' in its text
             /\ Retrieved(written, f)
             /\ fetch_error' = "other"
             /\ ReturnFalse("download")
             /\ UNCHANGED <<rar_filename, record_failed, recorded>>
       \/ \E f \in ArchiveNames, written \in BOOLEAN :     \* 'WinError 32' in str(e)
             /\ Retrieved(written, f)
             /\ fetch_error' = "WinError 32"
             /\ IF RarFiles(temp_files') # {}
                THEN /\ rar_filename' = LatestRar(temp_files')
                     /\ Goto("derive")
                ELSE /\ ReturnFalse("download")
                     /\ UNCHANGED <<rar_filename, record_failed, recorded>>
    /\ UNCHANGED <<restarts, processed_urls, idx, entry, load_failed>>
    /\ UNCHANGED <<ledger_exists, ledger_file, extract_dirs, output_docs>>
    /\ UNCHANGED <<post_link, mega_link, chapter_number, images, pdf_pages>>
    /\ UNCHANGED assembler

\* chapter_number = get_chapter_number_from_filename(rar_filename); without
\* a number the archive is removed and the run returns False.
derive_chapter_number ==
    /\ pc = "derive"
    /\ LET n == get_chapter_number_from_filename(rar_filename)
       IN \/ /\ n # None
             /\ chapter_number' = n
             /\ Goto("mkdir")
             /\ UNCHANGED temp_files
          \/ /\ n = None
             /\ Removed
             /\ ReturnFalse("derive")
             /\ UNCHANGED <<chapter_number, record_failed, recorded>>
          \/ /\ n = None                       \* os.remove raises OSError
             /\ Raise("derive")
             /\ UNCHANGED <<temp_files, chapter_number, record_failed, recorded>>
    /\ UNCHANGED <<restarts, processed_urls, idx, entry, load_failed>>
    /\ UNCHANGED <<ledger_exists, ledger_file, extract_dirs, output_docs>>
    /\ UNCHANGED <<post_link, rar_filename, pdf_pages>>
    /\ fetch_error' = "none"
    /\ downloaded' = None
    /\ UNCHANGED <<mega_link, images>>
    /\ UNCHANGED assembler

\* os.makedirs(chapter_temp_extract_dir, exist_ok=True)
make_extract_dir ==
    /\ pc = "mkdir"
    /\ \/ /\ extract_dirs' = [extract_dirs EXCEPT
                                 ![The(chapter_number)] = IF @ = NoDir THEN Some({}) ELSE @]
          /\ Goto("extract")
       \/ /\ Raise("mkdir")                    \* os.makedirs raises OSError
          /\ UNCHANGED <<extract_dirs, record_failed, recorded>>
    /\ UNCHANGED <<restarts, processed_urls, idx, entry, load_failed>>
    /\ UNCHANGED <<ledger_exists, ledger_file, temp_files, output_docs>>
    /\ UNCHANGED <<post_link, rar_filename, chapter_number, pdf_pages>>
    /\ UNCHANGED <<mega_link, fetcher, images>>
    /\ UNCHANGED assembler

\* rf.extractall(path=extract_to_path) put the archive's image files (if it
\* holds any) into the directory: over the files that were there, if they
\* have the same names, and next to them otherwise.
Extracted(n, members, replaced) ==
    extract_dirs' = [extract_dirs EXCEPT
                        ![n] = Some((IF members /\ replaced THEN {} ELSE The(@))
                                       \cup (IF members THEN {"cur"} ELSE {}))]

\* 3. extract_rar(temp_rar_path, chapter_temp_extract_dir); on failure the
\* archive is removed and the run returns False.
extract_rar ==
    /\ pc = "extract"
    /\ \E members, replaced \in BOOLEAN :
          /\ Extracted(The(chapter_number), members, replaced)
          /\ \/ /\ Goto("rmrar")
                /\ UNCHANGED temp_files
             \/ /\ Removed                     \* extraction failed, maybe part way
                /\ ReturnFalse("extract")
                /\ UNCHANGED <<record_failed, recorded>>
             \/ /\ Raise("extract")            \* and os.remove raises OSError
                /\ UNCHANGED <<temp_files, record_failed, recorded>>
    /\ UNCHANGED <<restarts, processed_urls, idx, entry, load_failed>>
    /\ UNCHANGED <<ledger_exists, ledger_file, output_docs>>
    /\ UNCHANGED <<post_link, rar_filename, chapter_number, pdf_pages>>
    /\ UNCHANGED <<mega_link, fetcher, images>>
    /\ UNCHANGED assembler

\* 4. try: os.remove(temp_rar_path) except OSError: logged
remove_rar ==
    /\ pc = "rmrar"
    /\ \/ Removed
       \/ UNCHANGED temp_files
    /\ Goto("pdf")
    /\ UNCHANGED <<restarts, processed_urls, idx, entry, load_failed>>
    /\ UNCHANGED <<ledger_exists, ledger_file, extract_dirs, output_docs>>
    /\ UNCHANGED <<post_link, rar_filename, chapter_number, pdf_pages>>
    /\ UNCHANGED <<mega_link, fetcher, images>>
    /\ UNCHANGED assembler

\* Mutant: without an image that opens, a document of no pages is saved.
images_to_pdf_empty_document ==
    /\ pc = "pdf"
    /\ LET n == The(chapter_number)
           image_files == The(Dir(n))
       IN \E opened \in SUBSET image_files :
             /\ images' = Some(opened)
             /\ output_docs' = [output_docs EXCEPT ![n] = TRUE]
             /\ pdf_pages' = opened
             /\ Goto("rmtree")
    /\ UNCHANGED <<restarts, processed_urls, idx, entry, load_failed>>
    /\ UNCHANGED <<ledger_exists, ledger_file, temp_files, extract_dirs>>
    /\ UNCHANGED <<post_link, rar_filename, chapter_number>>
    /\ UNCHANGED <<mega_link, fetcher>>
    /\ UNCHANGED assembler

\* Mutant: the result of images_to_pdf is not looked at, the run goes on.
images_to_pdf_unchecked ==
    /\ pc = "pdf"
    /\ LET n == The(chapter_number)
           image_files == The(Dir(n))
       IN \E opened \in SUBSET image_files :
             /\ images' = Some(opened)
             /\ \/ /\ opened = {}
                   /\ UNCHANGED <<output_docs, pdf_pages>>
                   /\ Goto("rmtree")
                \/ /\ opened # {}
                   /\ output_docs' = [output_docs EXCEPT ![n] = TRUE]
                   /\ pdf_pages' = opened
                   /\ Goto("rmtree")
    /\ UNCHANGED <<restarts, processed_urls, idx, entry, load_failed>>
    /\ UNCHANGED <<ledger_exists, ledger_file, temp_files, extract_dirs>>
    /\ UNCHANGED <<post_link, rar_filename, chapter_number>>
    /\ UNCHANGED <<mega_link, fetcher>>
    /\ UNCHANGED assembler

\* 5. images_to_pdf(chapter_temp_extract_dir, final_pdf_path, chapter_number).
\* (What a failing images[0].save leaves at the path is not modelled.)
images_to_pdf ==
    /\ pc = "pdf"
    /\ LET n == The(chapter_number)
           image_files == The(Dir(n))
       IN \/ /\ image_files = {}               \* "No valid images found"
             /\ images' = Some({})
             /\ ReturnFalse("pdf")
             /\ UNCHANGED <<output_docs, pdf_pages, record_failed, recorded>>
          \/ \E opened \in SUBSET image_files :    \* the images that open
                /\ images' = Some(opened)
                /\ \/ /\ image_files # {}
                      /\ opened = {}           \* "No valid images to create PDF."
                      /\ ReturnFalse("pdf")
                      /\ UNCHANGED <<output_docs, pdf_pages, record_failed, recorded>>
                   \/ /\ opened # {}           \* images[0].save(...) wrote the document
                      /\ output_docs' = [output_docs EXCEPT ![n] = TRUE]
                      /\ pdf_pages' = opened
                      /\ Goto("rmtree")
                   \/ /\ opened # {}           \* images[0].save(...) raises
                      /\ ReturnFalse("pdf")
                      /\ UNCHANGED <<output_docs, pdf_pages, record_failed, recorded>>
    /\ UNCHANGED <<restarts, processed_urls, idx, entry, load_failed>>
    /\ UNCHANGED <<ledger_exists, ledger_file, temp_files, extract_dirs>>
    /\ UNCHANGED <<post_link, rar_filename, chapter_number>>
    /\ UNCHANGED <<mega_link, fetcher>>
    /\ UNCHANGED assembler

\* 6. try: shutil.rmtree(chapter_temp_extract_dir) except OSError: logged
remove_extract_dir ==
    /\ pc = "rmtree"
    /\ LET n == The(chapter_number)
       IN \/ extract_dirs' = [extract_dirs EXCEPT ![n] = NoDir]
          \/ \E rest \in SUBSET The(Dir(n)) :
                extract_dirs' = [extract_dirs EXCEPT ![n] = Some(rest)]
    /\ Goto("record")
    /\ UNCHANGED <<restarts, processed_urls, idx, entry, load_failed>>
    /\ UNCHANGED <<ledger_exists, ledger_file, temp_files, output_docs>>
    /\ UNCHANGED <<post_link, rar_filename, chapter_number, pdf_pages>>
    /\ UNCHANGED <<mega_link, fetcher, images>>
    /\ UNCHANGED assembler

\* save_processed_chapter(post_url): append the link and a newline to the
\* ledger file; an error is logged and not raised.
save_processed_chapter(post_url) ==
    \/ /\ ledger_exists' = TRUE
       /\ ledger_file' = AppendLedger(ledger_file, post_url)
       /\ recorded' = recorded \cup {post_url}
       /\ UNCHANGED record_failed
    \/ /\ UNCHANGED <<ledger_exists, ledger_file, recorded>>
       /\ record_failed' = record_failed \cup {post_url}

\* Mutant: a failed append makes the run return False.
record_chapter_strict ==
    /\ pc = "record"
    /\ \/ /\ ledger_exists' = TRUE
          /\ ledger_file' = AppendLedger(ledger_file, post_link)
          /\ recorded' = recorded \cup {post_link}
          /\ UNCHANGED record_failed
          /\ ReturnTrue
       \/ /\ UNCHANGED <<ledger_exists, ledger_file, recorded>>
          /\ record_failed' = record_failed \cup {post_link}
          /\ ReturnFalse("record")
    /\ UNCHANGED <<restarts, processed_urls, idx, entry, load_failed>>
    /\ UNCHANGED <<temp_files, extract_dirs, output_docs>>
    /\ UNCHANGED <<post_link, rar_filename, chapter_number, pdf_pages>>
    /\ UNCHANGED <<mega_link, fetcher, images>>
    /\ UNCHANGED assembler

\* 7. save_processed_chapter(post_link); return True
record_chapter ==
    /\ pc = "record"
    /\ save_processed_chapter(post_link)
    /\ ReturnTrue
    /\ UNCHANGED <<restarts, processed_urls, idx, entry, load_failed>>
    /\ UNCHANGED <<temp_files, extract_dirs, output_docs>>
    /\ UNCHANGED <<post_link, rar_filename, chapter_number, pdf_pages>>
    /\ UNCHANGED <<mega_link, fetcher, images>>
    /\ UNCHANGED assembler

Next ==
    \/ load_processed_chapters
    \/ FeedParse
    \/ FeedError
    \/ EndOfFeed
    \/ EntryNoDate
    \/ SkipOld
    \/ SkipNoKeyword
    \/ SkipProcessed
    \/ InvokePipeline
    \/ get_mega_file_url
    \/ download_from_mega
    \/ derive_chapter_number
    \/ make_extract_dir
    \/ extract_rar
    \/ remove_rar
    \/ images_to_pdf
    \/ remove_extract_dir
    \/ record_chapter
    \/ HandleResult
    \/ Sleep
    \/ Restart

Spec == Init /\ [][Next]_vars

\* The steps of the process while it is not killed.
Run ==
    \/ load_processed_chapters
    \/ FeedParse
    \/ FeedError
    \/ EndOfFeed
    \/ EntryNoDate
    \/ SkipOld
    \/ SkipNoKeyword
    \/ SkipProcessed
    \/ InvokePipeline
    \/ get_mega_file_url
    \/ download_from_mega
    \/ derive_chapter_number
    \/ make_extract_dir
    \/ extract_rar
    \/ remove_rar
    \/ images_to_pdf
    \/ remove_extract_dir
    \/ record_chapter
    \/ HandleResult
    \/ Sleep

\* A process that is not killed keeps taking steps: every call of the loop
\* (network, disk, sleep) returns or raises.
LiveSpec == Spec /\ WF_vars(Run)

\* ------------------------------------------ the order of a document's pages

\* TEMP_DIR = os.path.join(os.getcwd(), 'temp_downloads'), for the working
\* directory /w, and the extraction directory of chapter 12.
TEMP_DIR ==
    <<"/", "w", "/", "t", "e", "m", "p", "_", "d", "o", "w", "n", "l", "o", "a", "d", "s">>
ImageFolder ==
    Join(TEMP_DIR, <<"/", "c", "h", "a", "p", "t", "e", "r", "_", "1", "2">>)

\* Files an archive may hold: pages with and without zero padding, in lower
\* and upper case, and a file that is no image.
PageOne == <<"c", "1", "2", "_", "p", "0", "1", ".", "j", "p", "g">>
PageTwo == <<"c", "1", "2", "_", "p", "2", ".", "j", "p", "g">>
PageThree == <<"c", "1", "2", "_", "p", "3", ".", "P", "N", "G">>
PageTen == <<"c", "1", "2", "_", "p", "1", "0", ".", "j", "p", "g">>
Notes == <<"n", ".", "t", "x", "t">>
FileNames == {PageOne, PageTwo, PageThree, PageTen, Notes}

\* What os.listdir may return: the files of the directory, in any order.
Listings ==
    UNION {{l \in [1..n -> FileNames] : \A i, j \in 1..n : l[i] = l[j] => i = j} :
              n \in 0..MaxImages}

\* f.lower().endswith(('.png', '.jpg', '.jpeg'))
IsImage(f) ==
    \/ EndsWith(Lower(f), <<".", "p", "n", "g">>)
    \/ EndsWith(Lower(f), <<".", "j", "p", "g">>)
    \/ EndsWith(Lower(f), <<".", "j", "p", "e", "g">>)

\* os.path.join(image_folder, f)
PathJoin(folder, f) == Join(folder, Join(<<"/">>, f))

\* sort_key, applied by sorted() to each element of the list it sorts, which
\* is a path: the pair (chapter, page) if both parts parse as integers, and
\* the argument itself otherwise.
sort_key(filename) ==
    LET parts == Split(SplitextRoot(filename), <<"_", "p">>, <<>>)
    IN IF /\ Len(parts) = 2
          /\ IsInt(Without(parts[1], "c"))
          /\ IsInt(parts[2])
       THEN [numeric |-> TRUE,
             pair |-> <<IntOf(Without(parts[1], "c")), IntOf(parts[2])>>,
             text |-> <<>>]
       ELSE [numeric |-> FALSE, pair |-> <<>>, text |-> filename]

\* a < b on two keys of one type: tuples by their first differing item,
\* str by code points.
KeyLess(a, b) ==
    IF a.numeric
    THEN \/ a.pair[1] < b.pair[1]
         \/ a.pair[1] = b.pair[1] /\ a.pair[2] < b.pair[2]
    ELSE StrLess(a.text, b.text)

\* sorted() can compare the keys: a tuple and a str cannot be compared
\* (TypeError).
Comparable(paths) ==
    \A i, j \in 1..Len(paths) : sort_key(paths[i]).numeric = sort_key(paths[j]).numeric

\* sorted(paths, key=sort_key): ascending by key, items of equal keys in
\* the order they had.
Insert(sorted, x) ==
    LET before == {i \in 1..Len(sorted) : ~KeyLess(sort_key(x), sort_key(sorted[i]))}
        at == Cardinality(before)
    IN SubSeq(sorted, 1, at) \o <<x>> \o SubSeq(sorted, at + 1, Len(sorted))

RECURSIVE Sorted(_)
Sorted(paths) ==
    IF paths = <<>> THEN <<>>
    ELSE Insert(Sorted(SubSeq(paths, 1, Len(paths) - 1)), paths[Len(paths)])

\* image_files = [f for f in os.listdir(image_folder) if ...]
ImageFiles(files) == SelectSeq(files, IsImage)

\* images_to_pdf up to its sorted image_paths:
\* sorted([os.path.join(image_folder, f) for f in image_files], key=sort_key)
sort_image_files ==
    /\ sort_state = "listed"
    /\ LET image_files == ImageFiles(listing)
           paths == [i \in 1..Len(image_files) |-> PathJoin(ImageFolder, image_files[i])]
       IN IF Comparable(paths)
          THEN /\ image_paths' = Sorted(paths)
               /\ sort_state' = "sorted"
          ELSE /\ image_paths' = <<>>
               /\ sort_state' = "TypeError"
    /\ UNCHANGED listing
    /\ UNCHANGED pipeline

\* images_to_pdf is called on a folder with any of the listings.
AssemblerInit ==
    /\ Started
    /\ listing \in Listings
    /\ image_paths = <<>>
    /\ sort_state = "listed"

AssemblerNext == sort_image_files

AssemblerSpec == AssemblerInit /\ [][AssemblerNext]_vars

\* ------------------------------------------------------------ properties

\* The run of process_new_chapter is over: it returned, or it raised into
\* the except of the feed cycle.
Returned == pc = "return"
Raised == pc = "sleep" /\ result = "raised"
LedgerLinks == ParseLedger(ledger_file)
LedgerChanges == ledger_file' # ledger_file \/ ledger_exists' # ledger_exists

\* C1: the ledger file changes only in the step that follows a written
\* output document (the record step of a run whose images_to_pdf saved the
\* document), and that run returns True; so no run that fails at a stage
\* changes the ledger.
C1_LedgerOnlyAfterDocument ==
    [][LedgerChanges =>
          /\ pc = "record"
          /\ pdf_pages # {}
          /\ output_docs[The(chapter_number)]
          /\ ledger_file' = AppendLedger(ledger_file, post_link)
          /\ result' = "True"]_vars

C1_Witness ==
    /\ Returned
    /\ result = "True"
    /\ output_docs[The(chapter_number)]
    /\ post_link \in LedgerLinks

\* C2 as stated: no link the pipeline ever succeeded for, in this process
\* or an earlier one, is handed to the pipeline again.
C2_AtMostOnceAcrossRestarts ==
    pc \in PipelinePcs => post_link \notin ever_succeeded

\* C2 as amended: a link the pipeline succeeded for is not handed to the
\* pipeline again by the same process, nor by a later process that read
\* the ledger, if the link was appended to the ledger.
C2_AtMostOnceWhenRecorded ==
    \A l \in ever_succeeded :
        (pc \in PipelinePcs /\ post_link = l) =>
            /\ l \notin succeeded
            /\ (l \in LedgerLinks => load_failed)

C2_Witness ==
    /\ restarts > 0
    /\ ~load_failed
    /\ pc = "entry"
    /\ result = "none"
    /\ entry # None
    /\ Eligible(The(entry))
    /\ The(entry).link \in ever_succeeded \cap LedgerLinks
    /\ succeeded = {}

\* The landing page or the archive of link l is fetched; l is appended to
\* the ledger.
Fetches(l) == post_link = l /\ pc \in {"resolve", "download"} /\ pc' # pc /\ pc' # "start"
Appends(l) == post_link = l /\ LedgerChanges

\* C3: in one process, after process_new_chapter returned True for a link,
\* no step fetches its landing page or archive and no step appends it to
\* the ledger.
C3_NoRefetchAfterSuccess ==
    [][\A l \in succeeded : ~Fetches(l) /\ ~Appends(l)]_vars

\* A later entry with the link of a successful run was skipped.
C3_Witness ==
    /\ pc = "entry"
    /\ entry # None
    /\ Eligible(The(entry))
    /\ The(entry).link \in succeeded
    /\ result = "none"

\* C4: when a run that fetched an archive is over, the archive file is gone
\* from TEMP_DIR.
C4_ArchiveDeletedOnEveryExit ==
    ((Returned \/ Raised) /\ rar_filename # None) =>
        rar_filename \notin Range(temp_files)

\* The run made its extraction directory; the run tried to remove it.
MadeDir == exit_stage \in {"extract", "pdf", "record"}
TriedRmtree == exit_stage = "record"

\* C5: when a run that made chapter_<n> returns, with images_to_pdf
\* succeeded or failed, the directory is removed or its removal was tried.
C5_ExtractDirDeletedOnEveryReturn ==
    (Returned /\ MadeDir) => (Dir(The(chapter_number)) = NoDir \/ TriedRmtree)

\* C6: a run of process_new_chapter never ends by raising: every failure
\* of a stage or of a cleanup step returns False.
C6_FailuresReturnFalse ==
    result # "raised"

\* C7: the watcher keeps going round: whatever a cycle met, it comes to
\* the sleep at its end and to the feed fetch of the next cycle, again and
\* again.
C7_LoopNeverEnds ==
    /\ []<>(pc = "sleep")
    /\ []<>(pc = "parse")

\* A cycle has begun after a cycle in which a run failed.
C7_Witness ==
    /\ pc = "entry"
    /\ failed # {}

\* C8: a link whose run failed is neither in processed_urls nor appended
\* to the ledger by that run, and the next cycle whose feed holds an
\* eligible entry for it hands it to the pipeline again.
C8_FailedChapterRetried ==
    /\ (failed \cup failed_now) \cap processed_urls = {}
    /\ (Returned /\ result = "False") => post_link \notin (LedgerLinks \ ever_succeeded)
    /\ pc = "sleep" => unexamined \cap failed = {}

\* C9 as stated: after a failed ledger append the run does not return
\* True and the watcher does not add the link to processed_urls.
C9_FailedRecordNotSuccess ==
    \A l \in record_failed :
        /\ l \notin processed_urls
        /\ ~(Returned /\ post_link = l /\ result = "True")

\* C9 as amended: a failed ledger append leaves the ledger file as it was
\* and is not reported: the run returns True all the same, and the watcher
\* adds the link to processed_urls.
C9_FailedRecordIsSwallowed ==
    [][/\ (pc = "record" /\ post_link \in record_failed') =>
             /\ ~LedgerChanges
             /\ pc' = "return" /\ result' = "True"
       /\ (Returned /\ post_link \in record_failed /\ pc' = "entry") =>
             post_link \in processed_urls']_vars

C9_Witness ==
    /\ pc = "entry"
    /\ result = "True"
    /\ entry # None
    /\ The(entry).link \in record_failed \cap processed_urls
    /\ The(entry).link \notin LedgerLinks

\* C10: a link whose ledger append failed is in processed_urls from the
\* moment the watcher has the run's result, and this process does not hand
\* it to the pipeline again.
C10_DoneDespiteFailedRecord ==
    \A l \in record_failed :
        /\ l \in processed_urls \/ (Returned /\ post_link = l /\ result = "True")
        /\ pc \in PipelinePcs => post_link # l

\* A later entry with the link of a run whose ledger append failed was
\* skipped.
C10_Witness ==
    /\ pc = "entry"
    /\ result = "none"
    /\ entry # None
    /\ Eligible(The(entry))
    /\ The(entry).link \in record_failed
    /\ The(entry).link \notin LedgerLinks

\* The file name of a path, and the claim's reading of a page's file name:
\* c<chapter>_p<page> before the extension, both numbers in digits.
BaseName(path) == SubSeq(path, LastSep(path) + 1, Len(path))
PageParts(name) == Split(SplitextRoot(name), <<"_", "p">>, <<>>)
IsPageName(name) ==
    /\ Len(PageParts(name)) = 2
    /\ StartsWith(PageParts(name)[1], <<"c">>)
    /\ IsDigit(Tail(PageParts(name)[1]))
    /\ IsDigit(PageParts(name)[2])
Chapter(name) == ToInt(Tail(PageParts(name)[1]))
Page(name) == ToInt(PageParts(name)[2])
PageAfter(a, b) ==
    \/ Chapter(a) > Chapter(b)
    \/ Chapter(a) = Chapter(b) /\ Page(a) > Page(b)

\* C11: when every image file of the listing is named c<chapter>_p<page>,
\* images_to_pdf sorts without raising and no page of image_paths comes
\* before a page of a smaller (chapter, page), whatever order the listing
\* had.
C11_PagesInNumericOrder ==
    (sort_state # "listed" /\ \A i \in 1..Len(ImageFiles(listing)) :
                                  IsPageName(ImageFiles(listing)[i])) =>
        /\ sort_state = "sorted"
        /\ Len(image_paths) = Len(ImageFiles(listing))
        /\ \A i, j \in 1..Len(image_paths) :
               i < j => ~PageAfter(BaseName(image_paths[i]), BaseName(image_paths[j]))

\* C12: while the pipeline runs (and so whenever a landing page or an
\* archive is fetched), the entry the watcher holds is not older than
\* MAX_AGE_HOURS, has the keyword in its title in any case, and has the
\* link the pipeline was called with, which is not in processed_urls.
C12_PipelineOnlyForFilteredEntries ==
    pc \in PipelinePcs =>
        /\ entry # None
        /\ The(entry).age # None
        /\ The(The(entry).age) <= MAX_AGE_HOURS
        /\ Contains(Lower(The(entry).title), Lower(CHAPTER_KEYWORD))
        /\ post_link = The(entry).link
        /\ post_link \notin processed_urls

\* An entry with the keyword and a link not yet processed, but 48 hours
\* old, was skipped.
C12_Witness ==
    /\ pc = "entry"
    /\ result = "none"
    /\ entry # None
    /\ The(entry).age = Some(48)
    /\ The(entry).title = TitleChapter
    /\ The(entry).link \notin processed_urls
    /\ post_link = None

\* C13: when get_mega_file_url returns None (the page has no mega.nz link,
\* or could not be fetched), the run returns False in that very step, with
\* no archive fetched (no fetcher call, no archive name) and the ledger
\* file, processed_urls, the archives in TEMP_DIR, the extraction
\* directories and the output documents as they were; and the watcher,
\* given that result, changes none of them either and makes no directory.
C13_NoLinkLeavesAllUnchanged ==
    [][/\ (pc = "resolve" /\ pc' # "start" /\ mega_link' = None) =>
             /\ pc' = "return"
             /\ result' = "False"
             /\ rar_filename' = None
             /\ fetch_error' = "none"
             /\ downloaded' = None
             /\ UNCHANGED <<ledger_exists, ledger_file, processed_urls>>
             /\ UNCHANGED <<temp_files, extract_dirs, output_docs>>
       /\ (Returned /\ mega_link = None /\ pc' = "entry") =>
             /\ UNCHANGED <<ledger_exists, ledger_file, processed_urls>>
             /\ UNCHANGED <<temp_files, output_docs>>
             /\ \A n \in Chapters : Dir(n) = NoDir => extract_dirs'[n] = NoDir]_vars

\* A run for a page without a link returned, in a process whose ledger
\* and scratch area hold something.
C13_Witness ==
    /\ Returned
    /\ exit_stage = "resolve"
    /\ mega_link = None
    /\ result = "False"
    /\ ledger_file # <<>>
    /\ processed_urls # {}

\* The fetcher's call has just returned to process_new_chapter, with the
\* archive of TEMP_DIR that ends in .rar and was modified last; with
\* failure (None, None).
ReturnedLatestRar ==
    /\ pc = "derive"
    /\ \E i \in 1..Len(temp_files) :
          /\ temp_files[i] = rar_filename
          /\ EndsWith(temp_files[i], <<".", "r", "a", "r">>)
          /\ \A j \in (i + 1)..Len(temp_files) :
                ~EndsWith(temp_files[j], <<".", "r", "a", "r">>)
DeclaredFailure ==
    /\ Returned
    /\ exit_stage = "download"
    /\ result = "False"
    /\ rar_filename = None

\* C14 as stated: whatever error the retrieval raised, the fetcher returns
\* the .rar file of TEMP_DIR modified last if there is one, and declares
\* failure only if there is none.
C14_RescanOnEveryError ==
    fetch_error # "none" =>
        IF RarFiles(temp_files) # {} THEN ReturnedLatestRar ELSE DeclaredFailure

\* C14 as amended: it does so when the text of the error holds
\* 'WinError 32'; after any other error it declares failure, whatever
\* TEMP_DIR holds.
C14_RescanOnWinError32 ==
    /\ fetch_error = "WinError 32" =>
          IF RarFiles(temp_files) # {} THEN ReturnedLatestRar ELSE DeclaredFailure
    /\ fetch_error = "other" => DeclaredFailure

\* The re-scan chose between two archives.
C14_Witness ==
    /\ pc = "derive"
    /\ fetch_error = "WinError 32"
    /\ Cardinality(RarFiles(temp_files)) = 2
    /\ rar_filename = temp_files[2]

\* C15 as stated: the set a process holds from its load of the ledger,
\* before any run of its own has succeeded, is the set of the links
\* recorded so far: every link save_processed_chapter appended is in it,
\* and no other link; it is empty when there is no ledger file.
C15_LoadYieldsRecordedLinks ==
    (pc # "start" /\ succeeded = {}) =>
        /\ recorded \subseteq processed_urls
        /\ processed_urls \subseteq recorded
        /\ ~ledger_exists => processed_urls = {}

\* C15 as amended: if the load did not fail, that set is the set of the
\* links whose append succeeded, whatever was appended how often; it is
\* empty when there is no ledger file, and when the load failed.
C15_LoadYieldsAppendedLinks ==
    (pc # "start" /\ succeeded = {}) =>
        /\ ~load_failed => processed_urls = recorded
        /\ ~ledger_exists => processed_urls = {} /\ recorded = {}
        /\ load_failed => processed_urls = {}

\* A process loaded a ledger to which two links were appended.
C15_Witness ==
    /\ pc = "parse"
    /\ restarts > 0
    /\ ~load_failed
    /\ succeeded = {}
    /\ processed_urls = Links
    /\ recorded = Links

\* C16: when images_to_pdf has no image to save (the directory holds no
\* image file, or none of its image files opens), it writes no document
\* and the run returns False in that step, with the ledger file as it
\* was; and the watcher, given that result, neither adds the link to
\* processed_urls nor changes the ledger or a document.
C16_NoImagesNoDocument ==
    [][/\ (pc = "pdf" /\ images' = Some({})) =>
             /\ pc' = "return"
             /\ result' = "False"
             /\ exit_stage' = "pdf"
             /\ UNCHANGED <<output_docs, ledger_exists, ledger_file, processed_urls>>
       /\ (Returned /\ images = Some({}) /\ pc' = "entry") =>
             UNCHANGED <<output_docs, ledger_exists, ledger_file, processed_urls>>]_vars

\* The directory held image files and none of them opened.
C16_Witness ==
    /\ Returned
    /\ images = Some({})
    /\ The(Dir(The(chapter_number))) # {}
    /\ result = "False"
    /\ ~output_docs[The(chapter_number)]
    /\ post_link \notin LedgerLinks

\* C17: a run ends at the derivation of the chapter number (the archive
\* is rejected) only if the title of its entry holds no number either:
\* with a number in the title the run goes on.
C17_TitleFallback ==
    ((Returned \/ Raised) /\ exit_stage = "derive") =>
        get_chapter_number_from_title(The(entry).title) = None

\* images_to_pdf saves the document of this run's chapter.
SavesDocument == pc = "pdf" /\ pc' = "rmtree"

\* C18: no step saves a document to the path of a chapter number whose
\* document exists already.
C18_DocumentWrittenOnce ==
    [][SavesDocument => ~output_docs[The(chapter_number)]]_vars

\* C19: when images_to_pdf is about to list the extraction directory, it
\* holds no file an earlier run left there.
C19_NoStaleImages ==
    pc = "pdf" => "old" \notin The(Dir(The(chapter_number)))

\* C20: the archive the fetcher returns to a run is the file that run's
\* own retrieval wrote.
C20_FetcherReturnsOwnArchive ==
    pc = "derive" => downloaded = Some(rar_filename)

====
